---------------------------- MODULE Spec2Model ----------------------------
(***************************************************************************)
(* A model of the three REST adapters of quant/platform:                   *)
(*   BinanceRestAPI (venue A), HuobiRestAPI (venue B), OKExRestAPI (C).    *)
(* Every public coroutine is an action that runs the coroutine up to its   *)
(* first await of AsyncHttpRequests.fetch; the transport's answer is a     *)
(* second action that runs the coroutine to its next await or its return.  *)
(* Python values are tagged tuples so that str(), truthiness and dict      *)
(* insertion order are computed the way the interpreter computes them.     *)
(***************************************************************************)
EXTENDS Integers, Sequences, FiniteSets, TLC

VARIABLES
    account_id,     \* HuobiRestAPI._account_id
    callerParams,   \* a dict object owned by a caller of HuobiRestAPI.request
    reuse,          \* how often the caller has passed callerParams so far
    tasks,          \* the coroutines: one record per concurrent caller
    listed,         \* history: ids of the "spot" entries of the listings scanned
    assigned,       \* history: values assigned to _account_id
    listSeen        \* history: values already cached when a listing was requested

vars == <<account_id, callerParams, reuse, tasks, listed, assigned, listSeen>>

---------------------------------------------------------------------------
(* Bounds of the model *)

MaxReuse == 2

Tasks == {"t1", "t2"}

---------------------------------------------------------------------------
(* Python values *)

PyNone == <<"none">>
PyStr(s) == <<"str", s>>
PyInt(n) == <<"int", n>>
PyNum(r) == <<"num", r>>          \* a float, kept as its repr()
PyBool(b) == <<"bool", b>>
PyList(s) == <<"list", s>>
PyDict(d) == <<"dict", d>>

EmptyDict == [keys |-> <<>>, val |-> [k \in {} |-> PyNone]]

Range(s) == {s[i] : i \in DOMAIN s}

HasKey(d, k) == k \in DOMAIN d.val

\* d[k] = v: a new key goes last, an old key keeps its place
DictSet(d, k, v) ==
    [keys |-> IF HasKey(d, k) THEN d.keys ELSE Append(d.keys, k),
     val  |-> [x \in (DOMAIN d.val) \cup {k} |-> IF x = k THEN v ELSE d.val[x]]]

\* d.update(e)
RECURSIVE DictUpdateFrom(_, _, _)
DictUpdateFrom(d, e, i) ==
    IF i > Len(e.keys) THEN d
    ELSE DictUpdateFrom(DictSet(d, e.keys[i], e.val[e.keys[i]]), e, i + 1)

DictUpdate(d, e) == DictUpdateFrom(d, e, 1)

\* a dict literal {k1: v1, k2: v2, ...}
RECURSIVE MkDictFrom(_, _, _)
MkDictFrom(d, pairs, i) ==
    IF i > Len(pairs) THEN d
    ELSE MkDictFrom(DictSet(d, pairs[i][1], pairs[i][2]), pairs, i + 1)

MkDict(pairs) == MkDictFrom(EmptyDict, pairs, 1)

\* d.pop(k)
DictPop(d, k) ==
    [keys |-> SelectSeq(d.keys, LAMBDA x : x # k),
     val  |-> [x \in (DOMAIN d.val) \ {k} |-> d.val[x]]]

\* d.get(k)
DictGet(d, k) == IF HasKey(d, k) THEN d.val[k] ELSE PyNone

\* bool(v)
Truthy(v) ==
    CASE v[1] = "none" -> FALSE
      [] v[1] = "str"  -> v[2] # ""
      [] v[1] = "int"  -> v[2] # 0
      [] v[1] = "num"  -> v[2] \notin {"0.0", "-0.0"}
      [] v[1] = "bool" -> v[2]
      [] v[1] = "list" -> Len(v[2]) > 0
      [] v[1] = "dict" -> Len(v[2].keys) > 0

\* str(v) and "{}".format(v)
Str(v) ==
    CASE v[1] = "none" -> "None"
      [] v[1] = "str"  -> v[2]
      [] v[1] = "int"  -> ToString(v[2])
      [] v[1] = "num"  -> v[2]
      [] v[1] = "bool" -> IF v[2] THEN "True" ELSE "False"

\* sep.join(parts)
RECURSIVE JoinFrom(_, _, _)
JoinFrom(parts, sep, i) ==
    IF i > Len(parts) THEN ""
    ELSE IF i = Len(parts) THEN parts[i]
    ELSE parts[i] \o sep \o JoinFrom(parts, sep, i + 1)

Join(parts, sep) == JoinFrom(parts, sep, 1)

---------------------------------------------------------------------------
(* hmac, hashlib, base64: the digest of a key and a message is the term    *)
(* that names them, so two digests agree exactly when key and message do.  *)

HmacSha256(key, msg) == "HMAC-SHA256(" \o key \o "," \o msg \o ")"

HexDigest(d) == "hex:" \o d

B64Encode(d) == "base64:" \o d

---------------------------------------------------------------------------
(* Credentials and hosts the adapters are constructed with *)

AccessKey == "AK"
SecretKey == "SK"
Passphrase == "PP"

HuobiHost == "https://API.Huobi.pro"

\* urljoin(host, uri) for a host without a path and a uri that starts with "/"
UrlJoin(host, uri) == host \o uri

\* urllib.parse.urlparse(host).hostname.lower()
HostNameLower(host) ==
    CASE host = "https://API.Huobi.pro" -> "api.huobi.pro"

---------------------------------------------------------------------------
(* The transport, quant.utils.web.AsyncHttpRequests.fetch: it answers with *)
(* (status, success, error), and the adapters drop the status. An answer   *)
(* is the pair <<success, error>>: a transport error carries no success.   *)

TransportError == <<PyNone, PyStr("timeout")>>

Answer(payload) == <<payload, PyNone>>

---------------------------------------------------------------------------
(* HuobiRestAPI (venue B) *)

\* datetime.datetime.utcnow().strftime("%Y-%m-%dT%H:%M:%S")
HuobiClock == {"2019-01-01T00:00:00"}

\* strings made of letters, digits and "_.-~/" only, which parse.quote keeps
Unreserved ==
    {"AK", "HmacSHA256", "2", "btcusdt", "500", "None", "0", "3", "7", "8"}

\* urllib.parse.quote(s): every other character becomes %XX
Quote(s) ==
    CASE s \in Unreserved -> s
      [] s = "2019-01-01T00:00:00" -> "2019-01-01T00%3A00%3A00"
      [] OTHER -> "quote(" \o s \o ")"

\* the keys the adapters put into parameter dicts, in the order sorted() gives
KeyOrder ==
    <<"AccessKeyId", "Signature", "SignatureMethod", "SignatureVersion",
      "Timestamp", "account-id", "instrument_id", "limit", "size", "symbol">>

\* sorted(d.keys())
SortedKeys(d) == SelectSeq(KeyOrder, LAMBDA k : HasKey(d, k))

\* the canonical query of generate_signature
HuobiCanonicalQuery(params) ==
    LET ks == SortedKeys(params)
    IN  Join([i \in DOMAIN ks |-> ks[i] \o "=" \o Quote(Str(params.val[ks[i]]))], "&")

HuobiSignedPayload(method, params, host_url, request_path) ==
    Join(<<method, host_url, request_path, HuobiCanonicalQuery(params)>>, "\n")

generate_signature(method, params, host_url, request_path) ==
    B64Encode(HmacSha256(SecretKey,
                         HuobiSignedPayload(method, params, host_url, request_path)))

HuobiAuthParams(timestamp) ==
    MkDict(<<<<"AccessKeyId", PyStr(AccessKey)>>,
             <<"SignatureMethod", PyStr("HmacSHA256")>>,
             <<"SignatureVersion", PyStr("2")>>,
             <<"Timestamp", PyStr(timestamp)>>>>)

\* params = params if params else {}; params.update({...}): the dict that is
\* handed to generate_signature (the caller's own dict when it is truthy)
HuobiParamsToSign(params, timestamp) ==
    DictUpdate(IF Truthy(params) THEN params[2] ELSE EmptyDict,
               HuobiAuthParams(timestamp))

\* params["Signature"] = self.generate_signature(method, params, host_name, uri)
HuobiParamsSent(method, uri, params, timestamp) ==
    LET p == HuobiParamsToSign(params, timestamp)
    IN  DictSet(p, "Signature",
                PyStr(generate_signature(method, p, HostNameLower(HuobiHost), uri)))

HuobiHeaders(method) ==
    IF method = "GET"
    THEN MkDict(<<<<"Content-type", PyStr("application/x-www-form-urlencoded")>>,
                  <<"User-Agent", PyStr("Mozilla/5.0")>>>>)
    ELSE MkDict(<<<<"Accept", PyStr("application/json")>>,
                  <<"Content-type", PyStr("application/json")>>>>)

\* what HuobiRestAPI.request hands to AsyncHttpRequests.fetch
HuobiFetchCall(method, uri, params, body, timestamp) ==
    [venue   |-> "huobi",
     method  |-> method,
     uri     |-> uri,
     url     |-> UrlJoin(HuobiHost, uri),
     params  |-> PyDict(HuobiParamsSent(method, uri, params, timestamp)),
     body    |-> body,
     headers |-> PyDict(HuobiHeaders(method)),
     signed  |-> HuobiSignedPayload(method, HuobiParamsToSign(params, timestamp),
                                    HostNameLower(HuobiHost), uri),
     qparams |-> PyDict(HuobiParamsToSign(params, timestamp))]

\* a request that hands the envelope on without reading its status
HuobiNormalize_unread(answer) == <<answer[1], answer[2]>>

\* the tail of HuobiRestAPI.request: the pair it returns for the transport's answer
HuobiNormalize(answer) ==
    LET success == answer[1]
        error   == answer[2]
    IN  IF Truthy(error) THEN <<success, error>>
        ELSE IF DictGet(success[2], "status") # PyStr("ok") THEN <<PyNone, success>>
        ELSE <<DictGet(success[2], "data"), PyNone>>

---------------------------------------------------------------------------
(* The coroutines *)

NoReq ==
    [venue |-> "none", method |-> "", uri |-> "", url |-> "", params |-> PyNone,
     body |-> PyNone, headers |-> PyNone, signed |-> "", qparams |-> PyNone]

NoRet == <<"running">>

\* return success, error
RetPair(success, error) == <<"pair", success, error>>

\* return v, for a v that is not a tuple
RetValue(v) == <<"value", v>>

NoAnswer == <<PyNone, PyNone>>

\* api: the adapter called; op, arg: the operation and its arguments; acct: the
\* local account_id of a HuobiRestAPI operation; hit: whether _get_account_id
\* returned the cached identifier; req: the last call of fetch; answer: the
\* transport's answer to it; ret: what the operation returned
Idle == [pc |-> "idle", api |-> "", op |-> "", arg |-> <<>>, acct |-> PyNone,
         hit |-> FALSE, req |-> NoReq, answer |-> NoAnswer, ret |-> NoRet]

\* a coroutine suspended in an await of fetch
Awaiting(api, pc, op, arg, acct, req) ==
    [pc |-> pc, api |-> api, op |-> op, arg |-> arg, acct |-> acct, hit |-> FALSE,
     req |-> req, answer |-> NoAnswer, ret |-> NoRet]

\* a coroutine that has returned
Returned(task, answer, ret) ==
    [task EXCEPT !.pc = "done", !.answer = answer, !.ret = ret]

---------------------------------------------------------------------------
(* HuobiRestAPI: what the venue answers *)

HuobiOk(data) == PyDict(MkDict(<<<<"status", PyStr("ok")>>, <<"data", data>>>>))

HuobiOkNoData == PyDict(MkDict(<<<<"status", PyStr("ok")>>>>))

HuobiRejected ==
    PyDict(MkDict(<<<<"status", PyStr("error")>>, <<"err-code", PyStr("X")>>>>))

Account(type, id) == PyDict(MkDict(<<<<"id", id>>, <<"type", PyStr(type)>>>>))

\* the account listings of /v1/account/accounts
Listings ==
    { <<>>,
      <<Account("otc", PyInt(3))>>,
      <<Account("spot", PyInt(0))>>,
      <<Account("spot", PyInt(7))>>,
      <<Account("otc", PyInt(3)), Account("spot", PyInt(7))>>,
      <<Account("spot", PyInt(8)), Account("spot", PyInt(7))>> }

HuobiListingAnswers ==
    {TransportError, Answer(HuobiRejected)} \cup {Answer(HuobiOk(PyList(l))) : l \in Listings}

HuobiAnswers ==
    {TransportError, Answer(HuobiRejected), Answer(HuobiOkNoData),
     Answer(HuobiOk(PyStr("data")))}

HuobiAnswersTo(req) ==
    IF req.uri = "/v1/account/accounts" THEN HuobiListingAnswers ELSE HuobiAnswers

---------------------------------------------------------------------------
(* HuobiRestAPI: the operations *)

HuobiSymbols == {PyStr("btcusdt")}

HuobiOrderTypes == {PyStr("buy-limit"), PyStr("sell-market"), PyStr("buy-stop")}

OrderNos == {PyInt(7)}

\* n order ids
OrderList(n) == PyList([i \in 1..n |-> PyInt(i)])

\* revoke_orders: "NOTE: no more than 50 order ids at a time"
HuobiBatchCap == 50

\* the numbers of order ids a caller passes to a revoke_orders of that cap
BatchSizes(cap) == {1, 2, cap, cap + 1}

HuobiCall(method, uri, params, body) ==
    [method |-> method, uri |-> uri, params |-> params, body |-> body]

\* a _get_account_id that never consults the cache
get_account_id_cached_never(cache) == FALSE

\* if self._account_id: return self._account_id
get_account_id_cached(cache) == Truthy(cache)

\* a _get_account_id that caches the id of the first entry, whatever its type
get_account_id_scan_first(items, i) ==
    IF i > Len(items) THEN PyNone ELSE items[i][2].val["id"]

\* for item in success: if item["type"] == "spot": ... return item["id"]
RECURSIVE get_account_id_scan(_, _)
get_account_id_scan(items, i) ==
    IF i > Len(items) THEN PyNone
    ELSE IF items[i][2].val["type"] = PyStr("spot") THEN items[i][2].val["id"]
    ELSE get_account_id_scan(items, i + 1)

\* whether the loop of _get_account_id reaches its assignment
get_account_id_found(items) ==
    \E i \in DOMAIN items : items[i][2].val["type"] = PyStr("spot")

\* history: the ids of all entries of type "spot" of a listing
SpotIds(items) ==
    {items[i][2].val["id"] : i \in {j \in DOMAIN items : items[j][2].val["type"] = PyStr("spot")}}

get_user_accounts_call == HuobiCall("GET", "/v1/account/accounts", PyNone, PyNone)

get_account_balance_call(acct) ==
    HuobiCall("GET", "/v1/account/accounts/" \o Str(acct) \o "/balance", PyNone, PyNone)

create_order_info(acct, symbol, price, quantity, order_type) ==
    LET info == MkDict(<<<<"account-id", acct>>, <<"price", price>>,
                         <<"amount", quantity>>, <<"source", PyStr("api")>>,
                         <<"symbol", symbol>>, <<"type", order_type>>>>)
    IN  IF order_type = PyStr("buy-market") \/ order_type = PyStr("sell-market")
        THEN DictPop(info, "price")
        ELSE info

huobi_create_order_call(acct, arg) ==
    HuobiCall("POST", "/v1/order/orders/place", PyNone,
              PyDict(create_order_info(acct, arg[1], arg[2], arg[3], arg[4])))

huobi_get_open_orders_call(acct, arg) ==
    HuobiCall("GET", "/v1/order/openOrders",
              PyDict(MkDict(<<<<"account-id", acct>>, <<"symbol", arg[1]>>,
                              <<"size", PyInt(500)>>>>)),
              PyNone)

\* the request a private operation makes once _get_account_id has returned acct
HuobiPrivateCall(op, arg, acct) ==
    CASE op = "get_account_balance" -> get_account_balance_call(acct)
      [] op = "create_order"        -> huobi_create_order_call(acct, arg)
      [] op = "get_open_orders"     -> huobi_get_open_orders_call(acct, arg)

HuobiFetch(call, timestamp) ==
    HuobiFetchCall(call.method, call.uri, call.params, call.body, timestamp)

\* a private operation up to its first await: the fetch of the operation itself
\* when the identifier is cached, the fetch of get_user_accounts otherwise
HuobiPrivate(t, op, arg) ==
    /\ tasks[t].pc = "idle"
    /\ \E timestamp \in HuobiClock :
         IF get_account_id_cached(account_id)
         THEN /\ tasks' = [tasks EXCEPT ![t] =
                    [Awaiting("huobi", "fetch", op, arg, account_id,
                              HuobiFetch(HuobiPrivateCall(op, arg, account_id), timestamp))
                        EXCEPT !.hit = TRUE]]
              /\ UNCHANGED listSeen
         ELSE /\ tasks' = [tasks EXCEPT ![t] =
                    Awaiting("huobi", "accounts", op, arg, PyNone,
                             HuobiFetch(get_user_accounts_call, timestamp))]
              /\ listSeen' = listSeen \cup assigned
    /\ UNCHANGED <<account_id, callerParams, reuse, listed, assigned>>

huobi_get_account_balance(t) == HuobiPrivate(t, "get_account_balance", <<>>)

huobi_create_order(t) ==
    \E symbol \in HuobiSymbols, order_type \in HuobiOrderTypes :
        HuobiPrivate(t, "create_order",
                     <<symbol, PyNum("10000.0"), PyNum("0.01"), order_type>>)

huobi_get_open_orders(t) ==
    \E symbol \in HuobiSymbols : HuobiPrivate(t, "get_open_orders", <<symbol>>)

\* _get_account_id resumes with the listing's answer, returns to the operation,
\* and the operation runs to the await of its own fetch
get_account_id_resume(t) ==
    /\ tasks[t].pc = "accounts"
    /\ \E answer \in HuobiAnswersTo(tasks[t].req), timestamp \in HuobiClock :
         LET r     == HuobiNormalize(answer)
             scan  == ~Truthy(r[2])
             found == scan /\ get_account_id_found(r[1][2])
             acct  == IF found THEN get_account_id_scan(r[1][2], 1) ELSE PyNone
         IN  /\ account_id' = IF found THEN acct ELSE account_id
             /\ assigned' = IF found THEN assigned \cup {acct} ELSE assigned
             /\ listed' = IF scan THEN listed \cup SpotIds(r[1][2]) ELSE listed
             /\ tasks' = [tasks EXCEPT ![t] =
                    Awaiting("huobi", "fetch", tasks[t].op, tasks[t].arg, acct,
                             HuobiFetch(HuobiPrivateCall(tasks[t].op, tasks[t].arg, acct),
                                        timestamp))]
    /\ UNCHANGED <<callerParams, reuse, listSeen>>

\* an operation that is one call of request with no parameters of the caller's
HuobiPlain(t, op, arg, call) ==
    /\ tasks[t].pc = "idle"
    /\ \E timestamp \in HuobiClock :
         tasks' = [tasks EXCEPT ![t] =
             Awaiting("huobi", "fetch", op, arg, PyNone, HuobiFetch(call, timestamp))]
    /\ UNCHANGED <<account_id, callerParams, reuse, listed, assigned, listSeen>>

huobi_get_server_time(t) ==
    HuobiPlain(t, "get_server_time", <<>>,
               HuobiCall("GET", "/v1/common/timestamp", PyNone, PyNone))

huobi_get_user_accounts(t) ==
    HuobiPlain(t, "get_user_accounts", <<>>, get_user_accounts_call)

huobi_get_balance_all(t) ==
    HuobiPlain(t, "get_balance_all", <<>>,
               HuobiCall("GET", "/v1/subuser/aggregate-balance", PyNone, PyNone))

huobi_revoke_order(t) ==
    \E order_no \in OrderNos :
        HuobiPlain(t, "revoke_order", <<order_no>>,
                   HuobiCall("POST", "/v1/order/orders/" \o Str(order_no) \o "/submitcancel",
                             PyNone, PyNone))

huobi_revoke_orders(t) ==
    \E n \in BatchSizes(HuobiBatchCap) :
        HuobiPlain(t, "revoke_orders", <<OrderList(n)>>,
                   HuobiCall("POST", "/v1/order/orders/batchcancel", PyNone,
                             PyDict(MkDict(<<<<"order-ids", OrderList(n)>>>>))))

huobi_get_order_status(t) ==
    \E order_no \in OrderNos :
        HuobiPlain(t, "get_order_status", <<order_no>>,
                   HuobiCall("GET", "/v1/order/orders/" \o Str(order_no), PyNone, PyNone))

\* request called by a caller of the adapter: with no params, or with the dict
\* object the caller keeps, which params.update and params["Signature"] = change
huobi_request(t) ==
    /\ tasks[t].pc = "idle"
    /\ \E method \in {"GET", "POST"}, own \in BOOLEAN, timestamp \in HuobiClock :
         LET params == IF own THEN PyDict(callerParams) ELSE PyNone
             uri    == "/v1/order/orders"
         IN  /\ own => reuse < MaxReuse
             /\ tasks' = [tasks EXCEPT ![t] =
                    Awaiting("huobi", "fetch", "request", <<PyStr(method), params>>, PyNone,
                             HuobiFetchCall(method, uri, params, PyNone, timestamp))]
             /\ callerParams' = IF Truthy(params)
                                THEN HuobiParamsSent(method, uri, params, timestamp)
                                ELSE callerParams
             /\ reuse' = IF own THEN reuse + 1 ELSE reuse
    /\ UNCHANGED <<account_id, listed, assigned, listSeen>>

\* request resumes with the transport's answer and the operation returns its pair
huobi_request_resume(t) ==
    /\ tasks[t].pc = "fetch"
    /\ tasks[t].api = "huobi"
    /\ \E answer \in HuobiAnswersTo(tasks[t].req) :
         LET r == HuobiNormalize(answer)
         IN  tasks' = [tasks EXCEPT ![t] = Returned(tasks[t], answer, RetPair(r[1], r[2]))]
    /\ UNCHANGED <<account_id, callerParams, reuse, listed, assigned, listSeen>>

\* the caller takes the result; the task is free for the next call
Return(t) ==
    /\ tasks[t].pc = "done"
    /\ tasks' = [tasks EXCEPT ![t] = Idle]
    /\ UNCHANGED <<account_id, callerParams, reuse, listed, assigned, listSeen>>

---------------------------------------------------------------------------
(* BinanceRestAPI (venue A) *)

BinanceHost == "https://api.binance.com"

\* the largest depth the venue documents for /api/v1/depth
BinanceDepthMax == 1000

\* tools.get_cur_timestamp_ms()
BinanceClock == {PyInt(1546300800)}

BinanceSymbols == {PyStr("BTCUSDT")}

\* data = {}; if params: data.update(params); if body: data.update(body)
BinanceData(params, body) ==
    LET d == IF Truthy(params) THEN DictUpdate(EmptyDict, params[2]) ELSE EmptyDict
    IN  IF Truthy(body) THEN DictUpdate(d, body[2]) ELSE d

\* "&".join(["=".join([str(k), str(v)]) for k, v in data.items()]), or ""
BinanceQuery(data) ==
    IF Truthy(PyDict(data))
    THEN Join([i \in DOMAIN data.keys |->
                  Join(<<data.keys[i], Str(data.val[data.keys[i]])>>, "=")], "&")
    ELSE ""

\* a request that signs whenever there is a query
BinanceSigns_always(auth, query) == query # ""

\* if auth and query
BinanceSigns(auth, query) == auth /\ query # ""

BinanceSignature(query) == HexDigest(HmacSha256(SecretKey, query))

\* the query string that goes into the url
BinanceSignedQuery(auth, query) ==
    IF BinanceSigns(auth, query)
    THEN query \o "&signature=" \o BinanceSignature(query)
    ELSE query

BinanceUrl(uri, auth, query) ==
    LET q == BinanceSignedQuery(auth, query)
    IN  IF q # "" THEN UrlJoin(BinanceHost, uri) \o "?" \o q
        ELSE UrlJoin(BinanceHost, uri)

\* what BinanceRestAPI.request hands to AsyncHttpRequests.fetch
BinanceFetchCall(method, uri, params, body, auth) ==
    LET data  == BinanceData(params, body)
        query == BinanceQuery(data)
    IN  [venue   |-> "binance",
         method  |-> method,
         uri     |-> uri,
         url     |-> BinanceUrl(uri, auth, query),
         params  |-> PyNone,
         body    |-> PyNone,
         headers |-> PyDict(MkDict(<<<<"X-MBX-APIKEY", PyStr(AccessKey)>>>>)),
         signed  |-> IF BinanceSigns(auth, query) THEN query ELSE "",
         qparams |-> PyDict(data)]

BinanceRejected ==
    <<PyNone, PyDict(MkDict(<<<<"code", PyInt(-1121)>>, <<"msg", PyStr("Invalid symbol.")>>>>))>>

BinanceAnswers ==
    {TransportError, BinanceRejected,
     Answer(PyDict(MkDict(<<<<"orderId", PyInt(7)>>>>)))}

\* an operation: one call of request, awaited
BinanceCall(t, op, arg, method, uri, params, body, auth) ==
    /\ tasks[t].pc = "idle"
    /\ tasks' = [tasks EXCEPT ![t] =
           Awaiting("binance", "fetch", op, arg, PyNone,
                    BinanceFetchCall(method, uri, params, body, auth))]
    /\ UNCHANGED <<account_id, callerParams, reuse, listed, assigned, listSeen>>

binance_get_user_account(t) ==
    \E ts \in BinanceClock :
        BinanceCall(t, "get_user_account", <<ts>>, "GET", "/api/v3/account",
                    PyDict(MkDict(<<<<"timestamp", PyStr(Str(ts))>>>>)), PyNone, TRUE)

binance_get_server_time(t) ==
    BinanceCall(t, "get_server_time", <<>>, "GET", "/api/v1/time", PyNone, PyNone, FALSE)

binance_get_exchange_info(t) ==
    BinanceCall(t, "get_exchange_info", <<>>, "GET", "/api/v1/exchangeInfo",
                PyNone, PyNone, FALSE)

binance_get_latest_ticker(t) ==
    \E symbol \in BinanceSymbols :
        BinanceCall(t, "get_latest_ticker", <<symbol>>, "GET", "/api/v1/ticker/24hr",
                    PyDict(MkDict(<<<<"symbol", symbol>>>>)), PyNone, FALSE)

get_orderbook_params(symbol, limit) ==
    MkDict(<<<<"symbol", symbol>>, <<"limit", limit>>>>)

binance_get_orderbook(t) ==
    \E symbol \in BinanceSymbols,
       limit \in {PyInt(10), PyInt(BinanceDepthMax), PyInt(BinanceDepthMax + 1)} :
        BinanceCall(t, "get_orderbook", <<symbol, limit>>, "GET", "/api/v1/depth",
                    PyDict(get_orderbook_params(symbol, limit)), PyNone, FALSE)

binance_create_order_info(action, symbol, price, quantity, client_order_id, ts) ==
    LET info == MkDict(<<<<"symbol", symbol>>, <<"side", action>>,
                         <<"type", PyStr("LIMIT")>>, <<"timeInForce", PyStr("GTC")>>,
                         <<"quantity", quantity>>, <<"price", price>>,
                         <<"recvWindow", PyStr("5000")>>,
                         <<"newOrderRespType", PyStr("FULL")>>,
                         <<"timestamp", ts>>>>)
    IN  IF Truthy(client_order_id)
        THEN DictSet(info, "newClientOrderId", client_order_id)
        ELSE info

binance_create_order(t) ==
    \E action \in {PyStr("BUY"), PyStr("SELL")}, symbol \in BinanceSymbols,
       client_order_id \in {PyNone, PyStr(""), PyStr("c1")}, ts \in BinanceClock :
        BinanceCall(t, "create_order",
                    <<action, symbol, PyInt(10000), PyNum("0.01"), client_order_id, ts>>,
                    "POST", "/api/v3/order", PyNone,
                    PyDict(binance_create_order_info(action, symbol, PyInt(10000),
                                                     PyNum("0.01"), client_order_id, ts)),
                    TRUE)

binance_order_params(symbol, order_id, client_order_id, ts) ==
    MkDict(<<<<"symbol", symbol>>, <<"orderId", PyStr(Str(order_id))>>,
             <<"origClientOrderId", client_order_id>>, <<"timestamp", ts>>>>)

binance_revoke_order(t) ==
    \E symbol \in BinanceSymbols, order_id \in OrderNos,
       client_order_id \in {PyNone, PyStr("c1")}, ts \in BinanceClock :
        BinanceCall(t, "revoke_order", <<symbol, order_id, client_order_id, ts>>,
                    "DELETE", "/api/v3/order",
                    PyDict(binance_order_params(symbol, order_id, client_order_id, ts)),
                    PyNone, TRUE)

binance_get_order_status(t) ==
    \E symbol \in BinanceSymbols, order_id \in OrderNos,
       client_order_id \in {PyNone, PyStr("c1")}, ts \in BinanceClock :
        BinanceCall(t, "get_order_status", <<symbol, order_id, client_order_id, ts>>,
                    "GET", "/api/v3/order",
                    PyDict(binance_order_params(symbol, order_id, client_order_id, ts)),
                    PyNone, TRUE)

binance_symbol_params(symbol, ts) ==
    MkDict(<<<<"symbol", symbol>>, <<"timestamp", ts>>>>)

binance_get_all_orders(t) ==
    \E symbol \in BinanceSymbols, ts \in BinanceClock :
        BinanceCall(t, "get_all_orders", <<symbol, ts>>, "GET", "/api/v3/allOrders",
                    PyDict(binance_symbol_params(symbol, ts)), PyNone, TRUE)

binance_get_open_orders(t) ==
    \E symbol \in BinanceSymbols, ts \in BinanceClock :
        BinanceCall(t, "get_open_orders", <<symbol, ts>>, "GET", "/api/v3/openOrders",
                    PyDict(binance_symbol_params(symbol, ts)), PyNone, TRUE)

binance_get_listen_key(t) ==
    BinanceCall(t, "get_listen_key", <<>>, "POST", "/api/v1/userDataStream",
                PyNone, PyNone, FALSE)

binance_put_listen_key(t) ==
    \E listen_key \in {PyStr("lk")} :
        BinanceCall(t, "put_listen_key", <<listen_key>>, "PUT", "/api/v1/userDataStream",
                    PyDict(MkDict(<<<<"listenKey", listen_key>>>>)), PyNone, FALSE)

binance_delete_listen_key(t) ==
    \E listen_key \in {PyStr("lk")} :
        BinanceCall(t, "delete_listen_key", <<listen_key>>, "DELETE",
                    "/api/v1/userDataStream",
                    PyDict(MkDict(<<<<"listenKey", listen_key>>>>)), PyNone, FALSE)

\* the params and body dicts a caller of request may pass
BinanceDicts ==
    {PyNone,
     PyDict(EmptyDict),
     PyDict(MkDict(<<<<"symbol", PyStr("BTCUSDT")>>, <<"side", PyStr("BUY")>>>>)),
     PyDict(MkDict(<<<<"side", PyStr("SELL")>>, <<"timestamp", PyInt(1546300800)>>>>))}

\* request called by a caller of the adapter
binance_request(t) ==
    \E method \in {"GET", "POST"}, params \in BinanceDicts, body \in BinanceDicts,
       auth \in BOOLEAN :
        BinanceCall(t, "request", <<PyStr(method), params, body, PyBool(auth)>>,
                    method, "/api/v3/order/test", params, body, auth)

\* request resumes with the transport's answer: return success, error
binance_request_resume(t) ==
    /\ tasks[t].pc = "fetch"
    /\ tasks[t].api = "binance"
    /\ \E answer \in BinanceAnswers :
         tasks' = [tasks EXCEPT ![t] = Returned(tasks[t], answer, RetPair(answer[1], answer[2]))]
    /\ UNCHANGED <<account_id, callerParams, reuse, listed, assigned, listSeen>>

---------------------------------------------------------------------------
(* OKExRestAPI (venue C) *)

OKExHost == "https://www.okex.com"

\* quant.order
ORDER_ACTION_BUY == PyStr("BUY")
ORDER_ACTION_SELL == PyStr("SELL")
ORDER_TYPE_LIMIT == PyStr("LIMIT")
ORDER_TYPE_MARKET == PyStr("MARKET")

OKExSymbols == {PyStr("BTC-USDT")}

\* time.time(), twice: microseconds since the epoch, the second read not earlier
OKExClockReads ==
    {<<99999900, 99999900>>, <<99999900, 100000250>>, <<99100000, 99900000>>,
     <<99500000, 99500000>>, <<100000000, 100000000>>}

\* the decimal digits of n, most significant first, padded to width w
RECURSIVE Digits(_, _)
Digits(n, w) == IF w = 0 THEN <<>> ELSE Append(Digits(n \div 10, w - 1), n % 10)

\* a digit sequence without its trailing zeros, its first digit kept
RECURSIVE StripZeros(_)
StripZeros(ds) ==
    IF Len(ds) > 1 /\ ds[Len(ds)] = 0 THEN StripZeros(SubSeq(ds, 1, Len(ds) - 1)) ELSE ds

\* str(time.time()).split("."): the integer part and the fraction digits of the
\* repr of a float with microsecond resolution
FloatParts(us) ==
    <<ToString(us \div 1000000), StripZeros(Digits(us % 1000000, 6))>>

\* s[:3] of a digit string
Take3(ds) == SubSeq(ds, 1, IF Len(ds) < 3 THEN Len(ds) ELSE 3)

DigitString(ds) == Join([i \in DOMAIN ds |-> ToString(ds[i])], "")

\* str(time.time()).split(".")[0] + "." + str(time.time()).split(".")[1][:3]
OKExTimestamp(reads) ==
    FloatParts(reads[1])[1] \o "." \o DigitString(Take3(FloatParts(reads[2])[2]))

\* json.dumps(v)
RECURSIVE JsonDumps(_)
JsonDumps(v) ==
    CASE v[1] = "none" -> "null"
      [] v[1] = "str"  -> "\"" \o v[2] \o "\""
      [] v[1] = "int"  -> ToString(v[2])
      [] v[1] = "num"  -> v[2]
      [] v[1] = "bool" -> IF v[2] THEN "true" ELSE "false"
      [] v[1] = "list" -> "[" \o Join([i \in DOMAIN v[2] |-> JsonDumps(v[2][i])], ", ") \o "]"
      [] v[1] = "dict" ->
            "{" \o Join([i \in DOMAIN v[2].keys |->
                            "\"" \o v[2].keys[i] \o "\": "
                                 \o JsonDumps(v[2].val[v[2].keys[i]])], ", ") \o "}"

\* str.upper(method)
Upper(method) ==
    CASE method \in {"GET", "get"} -> "GET"
      [] method \in {"POST", "post"} -> "POST"

\* if params: query = "&".join(... for k in sorted(params.keys())); uri += "?" + query
OKExUri(uri, params) ==
    IF Truthy(params)
    THEN LET ks == SortedKeys(params[2])
         IN  uri \o "?" \o Join([i \in DOMAIN ks |->
                                    ks[i] \o "=" \o Str(params[2].val[ks[i]])], "&")
    ELSE uri

\* body = json.dumps(body) if body else ""
OKExBody(body) == IF Truthy(body) THEN JsonDumps(body) ELSE ""

\* message = str(timestamp) + str.upper(method) + uri + str(body)
OKExMessage(timestamp, method, uri, body) ==
    timestamp \o Upper(method) \o uri \o body

\* a request that renders the digest as Binance does
OKExSign_hex(message) == HexDigest(HmacSha256(SecretKey, message))

\* sign = base64.b64encode(mac.digest())
OKExSign(message) == B64Encode(HmacSha256(SecretKey, message))

OKExHeaders(timestamp, sign) ==
    MkDict(<<<<"Content-Type", PyStr("application/json")>>,
             <<"OK-ACCESS-KEY", PyStr(AccessKey)>>,
             <<"OK-ACCESS-SIGN", PyStr(sign)>>,
             <<"OK-ACCESS-TIMESTAMP", PyStr(timestamp)>>,
             <<"OK-ACCESS-PASSPHRASE", PyStr(Passphrase)>>>>)

\* what OKExRestAPI.request hands to AsyncHttpRequests.fetch
OKExFetchCall(method, uri, params, body, auth, reads) ==
    LET u         == OKExUri(uri, params)
        timestamp == OKExTimestamp(reads)
        message   == OKExMessage(timestamp, method, u, OKExBody(body))
    IN  [venue   |-> "okex",
         method  |-> method,
         uri     |-> u,
         url     |-> UrlJoin(OKExHost, u),
         params  |-> PyNone,
         body    |-> IF auth THEN PyStr(OKExBody(body)) ELSE body,
         headers |-> IF auth THEN PyDict(OKExHeaders(timestamp, OKExSign(message)))
                     ELSE PyNone,
         signed  |-> IF auth THEN message ELSE "",
         qparams |-> params,
         reads   |-> IF auth THEN reads ELSE <<>>]

OKExAnswers ==
    {TransportError,
     Answer(PyDict(MkDict(<<<<"result", PyBool(TRUE)>>, <<"order_id", PyStr("7")>>>>))),
     Answer(PyDict(MkDict(<<<<"result", PyBool(FALSE)>>, <<"order_id", PyStr("7")>>>>)))}

\* an operation: one call of request, awaited
OKExCall(t, op, arg, method, uri, params, body, auth) ==
    /\ tasks[t].pc = "idle"
    /\ \E reads \in OKExClockReads :
         tasks' = [tasks EXCEPT ![t] =
             Awaiting("okex", "fetch", op, arg, PyNone,
                      OKExFetchCall(method, uri, params, body, auth, reads))]
    /\ UNCHANGED <<account_id, callerParams, reuse, listed, assigned, listSeen>>

okex_get_user_account(t) ==
    OKExCall(t, "get_user_account", <<>>, "GET", "/api/spot/v3/accounts",
             PyNone, PyNone, TRUE)

\* a create_order that sends every market quantity as size
okex_create_order_info_size(action, symbol, price, quantity, order_type) ==
    LET info == MkDict(<<<<"side", IF action = PyStr("BUY") THEN PyStr("buy")
                                                             ELSE PyStr("sell")>>,
                         <<"instrument_id", symbol>>,
                         <<"margin_trading", PyInt(1)>>>>)
    IN  IF order_type = PyStr("LIMIT")
        THEN PyDict(DictSet(DictSet(DictSet(info, "type", PyStr("limit")),
                                    "price", price), "size", quantity))
        ELSE IF order_type = PyStr("MARKET")
        THEN PyDict(DictSet(DictSet(info, "type", PyStr("market")), "size", quantity))
        ELSE PyNone

\* the info dict of create_order, before client_oid; PyNone when the order
\* type is neither limit nor market
okex_create_order_info(action, symbol, price, quantity, order_type) ==
    LET info == MkDict(<<<<"side", IF action = ORDER_ACTION_BUY THEN PyStr("buy")
                                                                 ELSE PyStr("sell")>>,
                         <<"instrument_id", symbol>>,
                         <<"margin_trading", PyInt(1)>>>>)
    IN  IF order_type = ORDER_TYPE_LIMIT
        THEN PyDict(DictSet(DictSet(DictSet(info, "type", PyStr("limit")),
                                    "price", price), "size", quantity))
        ELSE IF order_type = ORDER_TYPE_MARKET
        THEN IF action = ORDER_ACTION_BUY
             THEN PyDict(DictSet(DictSet(info, "type", PyStr("market")),
                                 "notional", quantity))
             ELSE PyDict(DictSet(DictSet(info, "type", PyStr("market")),
                                 "size", quantity))
        ELSE PyNone

\* if client_oid: info["client_oid"] = client_oid
okex_create_order_body(info, client_oid) ==
    IF Truthy(client_oid) THEN PyDict(DictSet(info[2], "client_oid", client_oid))
    ELSE info

OKExOrderTypes == {ORDER_TYPE_LIMIT, ORDER_TYPE_MARKET, PyStr("STOP")}

okex_create_order(t) ==
    \E action \in {ORDER_ACTION_BUY, ORDER_ACTION_SELL}, symbol \in OKExSymbols,
       price \in {PyNone, PyNum("10000.0")}, order_type \in OKExOrderTypes,
       client_oid \in {PyNone, PyStr("c1")} :
        LET quantity == PyNum("0.5")
            arg  == <<action, symbol, price, quantity, order_type, client_oid>>
            info == okex_create_order_info(action, symbol, price, quantity, order_type)
        IN  IF info = PyNone
            THEN \* logger.error(...); return None
                 /\ tasks[t].pc = "idle"
                 /\ tasks' = [tasks EXCEPT ![t] =
                        Returned(Awaiting("okex", "idle", "create_order", arg, PyNone, NoReq),
                                 NoAnswer, RetValue(PyNone))]
                 /\ UNCHANGED <<account_id, callerParams, reuse, listed, assigned,
                                listSeen>>
            ELSE OKExCall(t, "create_order", arg, "POST", "/api/spot/v3/orders", PyNone,
                          okex_create_order_body(info, client_oid), TRUE)

okex_revoke_order(t) ==
    \E symbol \in OKExSymbols, order_no \in OrderNos :
        OKExCall(t, "revoke_order", <<symbol, order_no>>, "POST",
                 "/api/spot/v3/cancel_orders/" \o Str(order_no), PyNone,
                 PyDict(MkDict(<<<<"instrument_id", symbol>>>>)), TRUE)

\* revoke_orders: "Maximum 10 orders can be cancelled at a time"
OKExBatchCap == 10

\* order_nos[:10]
okex_revoke_orders_ids(order_nos) ==
    PyList(SubSeq(order_nos[2], 1,
                  IF Len(order_nos[2]) < OKExBatchCap THEN Len(order_nos[2])
                  ELSE OKExBatchCap))

okex_revoke_orders_body(symbol, order_nos) ==
    PyList(<<PyDict(MkDict(<<<<"instrument_id", symbol>>,
                             <<"order_ids", okex_revoke_orders_ids(order_nos)>>>>))>>)

okex_revoke_orders(t) ==
    \E symbol \in OKExSymbols, n \in BatchSizes(OKExBatchCap) :
        OKExCall(t, "revoke_orders", <<symbol, OrderList(n)>>, "POST",
                 "/api/spot/v3/cancel_batch_orders", PyNone,
                 okex_revoke_orders_body(symbol, OrderList(n)), TRUE)

okex_get_open_orders(t) ==
    \E symbol \in OKExSymbols, limit \in {PyInt(100)} :
        OKExCall(t, "get_open_orders", <<symbol, limit>>, "GET",
                 "/api/spot/v3/orders_pending",
                 PyDict(MkDict(<<<<"instrument_id", symbol>>, <<"limit", limit>>>>)),
                 PyNone, TRUE)

okex_get_order_status(t) ==
    \E symbol \in OKExSymbols, order_no \in OrderNos :
        OKExCall(t, "get_order_status", <<symbol, order_no>>, "GET",
                 "/api/spot/v3/orders/" \o Str(order_no),
                 PyDict(MkDict(<<<<"instrument_id", symbol>>>>)), PyNone, TRUE)

\* request called by a caller of the adapter
okex_request(t) ==
    \E method \in {"GET", "post"}, auth \in BOOLEAN,
       params \in {PyNone, PyDict(MkDict(<<<<"limit", PyInt(100)>>,
                                            <<"instrument_id", PyStr("BTC-USDT")>>>>))} :
        OKExCall(t, "request", <<PyStr(method), params, PyBool(auth)>>, method,
                 "/api/spot/v3/instruments", params, PyNone, auth)

\* the pair an operation returns for the pair request has returned
okex_return(op, arg, result, error) ==
    IF op = "revoke_order"
    THEN IF Truthy(error) THEN RetPair(arg[2], error)
         ELSE IF Truthy(result[2].val["result"]) THEN RetPair(arg[2], PyNone)
         ELSE RetPair(arg[2], result)
    ELSE RetPair(result, error)

\* request resumes with the transport's answer and the operation returns
okex_request_resume(t) ==
    /\ tasks[t].pc = "fetch"
    /\ tasks[t].api = "okex"
    /\ \E answer \in OKExAnswers :
         tasks' = [tasks EXCEPT ![t] =
             Returned(tasks[t], answer,
                      okex_return(tasks[t].op, tasks[t].arg, answer[1], answer[2]))]
    /\ UNCHANGED <<account_id, callerParams, reuse, listed, assigned, listSeen>>

Init ==
    /\ account_id = PyNone
    /\ callerParams = MkDict(<<<<"symbol", PyStr("btcusdt")>>>>)
    /\ reuse = 0
    /\ tasks = [t \in Tasks |-> Idle]
    /\ listed = {}
    /\ assigned = {}
    /\ listSeen = {}

\* callers that await each call before they make the next
NoneInFlight == \A t \in Tasks : tasks[t].pc = "idle"

\* HuobiRestAPI, every operation, called by callers that await each call
NextHuobi ==
    \E t \in Tasks :
        \/ NoneInFlight /\ huobi_get_server_time(t)
        \/ NoneInFlight /\ huobi_get_user_accounts(t)
        \/ NoneInFlight /\ huobi_get_account_balance(t)
        \/ NoneInFlight /\ huobi_get_balance_all(t)
        \/ NoneInFlight /\ huobi_create_order(t)
        \/ NoneInFlight /\ huobi_revoke_order(t)
        \/ NoneInFlight /\ huobi_revoke_orders(t)
        \/ NoneInFlight /\ huobi_get_open_orders(t)
        \/ NoneInFlight /\ huobi_get_order_status(t)
        \/ NoneInFlight /\ huobi_request(t)
        \/ get_account_id_resume(t)
        \/ huobi_request_resume(t)
        \/ Return(t)

SpecHuobi == Init /\ [][NextHuobi]_vars

\* HuobiRestAPI, the operations that share _account_id, called concurrently
NextHuobiRace ==
    \E t \in Tasks :
        \/ huobi_get_account_balance(t)
        \/ huobi_create_order(t)
        \/ huobi_get_open_orders(t)
        \/ get_account_id_resume(t)
        \/ huobi_request_resume(t)
        \/ Return(t)

SpecHuobiRace == Init /\ [][NextHuobiRace]_vars

\* BinanceRestAPI, every operation
NextBinance ==
    \E t \in Tasks :
        \/ NoneInFlight /\ binance_get_user_account(t)
        \/ NoneInFlight /\ binance_get_server_time(t)
        \/ NoneInFlight /\ binance_get_exchange_info(t)
        \/ NoneInFlight /\ binance_get_latest_ticker(t)
        \/ NoneInFlight /\ binance_get_orderbook(t)
        \/ NoneInFlight /\ binance_create_order(t)
        \/ NoneInFlight /\ binance_revoke_order(t)
        \/ NoneInFlight /\ binance_get_order_status(t)
        \/ NoneInFlight /\ binance_get_all_orders(t)
        \/ NoneInFlight /\ binance_get_open_orders(t)
        \/ NoneInFlight /\ binance_get_listen_key(t)
        \/ NoneInFlight /\ binance_put_listen_key(t)
        \/ NoneInFlight /\ binance_delete_listen_key(t)
        \/ NoneInFlight /\ binance_request(t)
        \/ binance_request_resume(t)
        \/ Return(t)

SpecBinance == Init /\ [][NextBinance]_vars

\* OKExRestAPI, every operation
NextOKEx ==
    \E t \in Tasks :
        \/ NoneInFlight /\ okex_get_user_account(t)
        \/ NoneInFlight /\ okex_create_order(t)
        \/ NoneInFlight /\ okex_revoke_order(t)
        \/ NoneInFlight /\ okex_revoke_orders(t)
        \/ NoneInFlight /\ okex_get_open_orders(t)
        \/ NoneInFlight /\ okex_get_order_status(t)
        \/ NoneInFlight /\ okex_request(t)
        \/ okex_request_resume(t)
        \/ Return(t)

SpecOKEx == Init /\ [][NextOKEx]_vars

\* the three adapters of one process
Next == NextBinance \/ NextHuobi \/ NextOKEx

Spec == Init /\ [][Next]_vars

---------------------------------------------------------------------------
(* The result contract *)

IsPair(ret) == ret[1] = "pair"

\* exactly one of success and error is populated (is not None)
ExactlyOne(ret) == (ret[2] # PyNone) # (ret[3] # PyNone)

\* the operation returned an error result
IsError(ret) == IsPair(ret) /\ ret[2] = PyNone /\ ret[3] # PyNone

\* C1: every operation of the three adapters returns a pair (success, error)
\* with exactly one of the two populated.
C1_ExactlyOnePopulated ==
    \A t \in Tasks :
        tasks[t].pc = "done" => IsPair(tasks[t].ret) /\ ExactlyOne(tasks[t].ret)

---------------------------------------------------------------------------
(* The account identifier of HuobiRestAPI *)

HuobiPrivateOps == {"get_account_balance", "create_order", "get_open_orders"}

CarriesMissingId(req) ==
    \/ req.uri = "/v1/account/accounts/None/balance"
    \/ req.params[1] = "dict" /\ HasKey(req.params[2], "account-id")
                              /\ req.params[2].val["account-id"] = PyNone
    \/ req.body[1] = "dict" /\ HasKey(req.body[2], "account-id")
                            /\ req.body[2].val["account-id"] = PyNone

\* C3: when resolution yields no identifier, a dependent operation sends no
\* request that carries a missing identifier, and returns an error result.
C3_UnresolvedFailsWithoutRequest ==
    \A t \in Tasks :
        (tasks[t].api = "huobi" /\ tasks[t].op \in HuobiPrivateOps
            /\ tasks[t].pc \in {"fetch", "done"} /\ tasks[t].acct = PyNone)
        => /\ ~CarriesMissingId(tasks[t].req)
           /\ tasks[t].pc = "done" => IsError(tasks[t].ret)

\* C4 as stated: once set, the cached identifier is never assigned another value,
\* whatever the listings answer.
C4_NeverReassigned == Cardinality(assigned) <= 1

\* C4 as amended: when the spot entries of all listings scanned name one
\* identifier, every assignment to the cache assigns that same value, in every
\* interleaving of concurrent operations.
C4_StableWhenListingsAgree == Cardinality(listed) <= 1 => Cardinality(assigned) <= 1

\* two operations found the cache unset, both requested the listing, both cached
C4_Witness ==
    \E t \in Tasks, u \in Tasks :
        /\ t # u
        /\ tasks[t].pc = "fetch" /\ tasks[u].pc = "fetch"
        /\ ~tasks[t].hit /\ ~tasks[u].hit
        /\ Truthy(tasks[t].acct) /\ tasks[u].acct = tasks[t].acct
        /\ account_id = tasks[t].acct
        /\ Cardinality(listed) = 1

---------------------------------------------------------------------------
(* Response normalization of HuobiRestAPI.request *)

\* the status of the envelope the transport delivered
EnvelopeStatus(answer) == DictGet(answer[1][2], "status")

EnvelopeData(answer) == DictGet(answer[1][2], "data")

\* C5: a transport error is returned in the error slot; without one, an
\* envelope whose status is not "ok" comes back as (None, envelope) and one whose
\* status is "ok" as (data, None); a non-"ok" envelope is never the success.
C5_Normalization ==
    \A t \in Tasks :
        (tasks[t].api = "huobi" /\ tasks[t].pc = "done")
        => LET a   == tasks[t].answer
               ret == tasks[t].ret
           IN  /\ IsPair(ret)
               /\ a[2] # PyNone => ret[3] = a[2]
               /\ (a[2] = PyNone /\ EnvelopeStatus(a) # PyStr("ok"))
                     => ret = RetPair(PyNone, a[1])
               /\ (a[2] = PyNone /\ EnvelopeStatus(a) = PyStr("ok"))
                     => ret = RetPair(EnvelopeData(a), PyNone)
               /\ ~(ret[2] # PyNone /\ ret[2] = a[1])

\* a rejected request has returned (None, the venue's payload)
C5_Witness ==
    \E t \in Tasks :
        /\ tasks[t].api = "huobi" /\ tasks[t].pc = "done"
        /\ tasks[t].answer = Answer(HuobiRejected)
        /\ tasks[t].ret = RetPair(PyNone, HuobiRejected)

---------------------------------------------------------------------------
(* Placing orders *)

\* the order kinds each venue's create_order documents
SupportedKinds(api) ==
    CASE api = "huobi" -> {PyStr("buy-market"), PyStr("sell-market"),
                           PyStr("buy-limit"), PyStr("sell-limit")}
      [] api = "okex"  -> {ORDER_TYPE_LIMIT, ORDER_TYPE_MARKET}

\* the order kind a create_order task was called with
OrderKind(task) == IF task.api = "huobi" THEN task.arg[4] ELSE task.arg[5]

\* C6: create_order with an unsupported order kind makes no transport call and
\* returns an error result.
C6_UnsupportedKindRejected ==
    \A t \in Tasks :
        (tasks[t].api \in {"huobi", "okex"} /\ tasks[t].op = "create_order"
            /\ tasks[t].pc \in {"accounts", "fetch", "done"}
            /\ OrderKind(tasks[t]) \notin SupportedKinds(tasks[t].api))
        => /\ tasks[t].req = NoReq
           /\ tasks[t].pc = "done"
           /\ IsError(tasks[t].ret)

\* "k": v as json.dumps writes one member of an object
Member(k, v) == "\"" \o k \o "\": " \o v

Quoted(s) == "\"" \o s \o "\""

\* the members the body of an OKEx order must end with: the kind, then the price
\* and the quantity under the field names the kind and the direction call for
C7_KindMembers(action, price, quantity, order_type) ==
    IF order_type = ORDER_TYPE_LIMIT
    THEN <<Member("type", Quoted("limit")), Member("price", JsonDumps(price)),
           Member("size", JsonDumps(quantity))>>
    ELSE IF action = ORDER_ACTION_BUY
    THEN <<Member("type", Quoted("market")), Member("notional", JsonDumps(quantity))>>
    ELSE <<Member("type", Quoted("market")), Member("size", JsonDumps(quantity))>>

C7_Body(action, symbol, price, quantity, order_type, client_oid) ==
    "{" \o Join(<<Member("side", IF action = PyStr("BUY") THEN Quoted("buy")
                                                           ELSE Quoted("sell")),
                  Member("instrument_id", Quoted(symbol[2])),
                  Member("margin_trading", "1")>>
                \o C7_KindMembers(action, price, quantity, order_type)
                \o (IF client_oid \in {PyNone, PyStr("")} THEN <<>>
                    ELSE <<Member("client_oid", Quoted(client_oid[2]))>>),
                ", ") \o "}"

\* C7: the body OKEx create_order sends carries price and size for a limit
\* order, notional alone for a market BUY, size alone for a market SELL, and
\* side "buy" exactly for a BUY.
C7_QuantityMapping ==
    \A t \in Tasks :
        (tasks[t].api = "okex" /\ tasks[t].op = "create_order" /\ tasks[t].pc = "fetch")
        => LET a == tasks[t].arg
           IN  /\ a[5] \in {ORDER_TYPE_LIMIT, ORDER_TYPE_MARKET}
               /\ tasks[t].req.body = PyStr(C7_Body(a[1], a[2], a[3], a[4], a[5], a[6]))

\* a market SELL is in flight: its quantity is the size, and it has no price
C7_Witness ==
    \E t \in Tasks :
        /\ tasks[t].api = "okex" /\ tasks[t].op = "create_order" /\ tasks[t].pc = "fetch"
        /\ tasks[t].arg[1] = ORDER_ACTION_SELL /\ tasks[t].arg[5] = ORDER_TYPE_MARKET
        /\ tasks[t].arg[6] = PyNone
        /\ tasks[t].req.body = PyStr("{\"side\": \"sell\", \"instrument_id\": \"BTC-USDT\", "
                                     \o "\"margin_trading\": 1, \"type\": \"market\", "
                                     \o "\"size\": 0.5}")

---------------------------------------------------------------------------
(* Order book depth *)

\* C8: no request of get_orderbook carries a limit above the venue's maximum.
C8_DepthWithinMax ==
    \A t \in Tasks :
        (tasks[t].api = "binance" /\ tasks[t].op = "get_orderbook"
            /\ tasks[t].pc = "fetch")
        => tasks[t].req.qparams[2].val["limit"][2] <= BinanceDepthMax

---------------------------------------------------------------------------
(* Signing of BinanceRestAPI.request *)

\* the keys of the merged parameters: those of params in their order, then those
\* of body that params does not have
C9_Keys(params, body) ==
    LET pk == IF params[1] = "dict" THEN params[2].keys ELSE <<>>
        bk == IF body[1] = "dict" THEN body[2].keys ELSE <<>>
    IN  pk \o SelectSeq(bk, LAMBDA k : \A i \in DOMAIN pk : pk[i] # k)

\* the value of a merged parameter: the body's when it has the key
C9_Value(params, body, k) ==
    IF body[1] = "dict" /\ HasKey(body[2], k) THEN body[2].val[k] ELSE params[2].val[k]

\* key=value&key=value..., left to right
RECURSIVE C9_Joined(_, _, _)
C9_Joined(params, body, ks) ==
    IF ks = <<>> THEN ""
    ELSE LET rest == SubSeq(ks, 1, Len(ks) - 1)
             last == ks[Len(ks)]
         IN  (IF rest = <<>> THEN "" ELSE C9_Joined(params, body, rest) \o "&")
             \o last \o "=" \o Str(C9_Value(params, body, last))

C9_Url(uri, params, body, auth) ==
    LET q == C9_Joined(params, body, C9_Keys(params, body))
    IN  "https://api.binance.com" \o uri \o
        (IF q = "" THEN ""
         ELSE IF auth THEN "?" \o q \o "&signature=" \o HexDigest(HmacSha256("SK", q))
         ELSE "?" \o q)

\* C9: the url of a request of BinanceRestAPI.request is the uri, the merged
\* parameters as key=value joined by & in insertion order, and, when the request
\* is authenticated and has parameters, one trailing signature: the HMAC-SHA256
\* under the secret key of exactly that joined string; create_order signs
\* type=LIMIT, timeInForce=GTC and newOrderRespType=FULL.
C9_SignedQuery ==
    \A t \in Tasks :
        (tasks[t].api = "binance" /\ tasks[t].pc = "fetch")
        => LET a == tasks[t].arg
               r == tasks[t].req
           IN  /\ tasks[t].op = "request"
                     => r.url = C9_Url("/api/v3/order/test", a[2], a[3], a[4][2])
               /\ tasks[t].op = "create_order"
                     => /\ r.qparams[2].val["type"] = PyStr("LIMIT")
                        /\ r.qparams[2].val["timeInForce"] = PyStr("GTC")
                        /\ r.qparams[2].val["newOrderRespType"] = PyStr("FULL")
                        /\ r.signed # ""
               /\ tasks[t].op # "request"
                     => r.url = C9_Url(r.uri, PyNone, r.qparams,
                                       r.signed # "")
               /\ tasks[t].op \in {"get_server_time", "get_exchange_info",
                                   "get_latest_ticker", "get_orderbook", "get_listen_key",
                                   "put_listen_key", "delete_listen_key"}
                     => r.signed = ""

\* an authenticated request with parameters from both params and body is in flight
C9_Witness ==
    \E t \in Tasks :
        /\ tasks[t].api = "binance" /\ tasks[t].pc = "fetch" /\ tasks[t].op = "request"
        /\ tasks[t].arg[4] = PyBool(TRUE)
        /\ Truthy(tasks[t].arg[2]) /\ Truthy(tasks[t].arg[3])
        /\ tasks[t].arg[2] # tasks[t].arg[3]
        /\ tasks[t].req.signed # ""

---------------------------------------------------------------------------
(* Signing of HuobiRestAPI.request *)

\* C10: the parameters signed never hold a Signature, and the parameters sent
\* are the parameters signed plus the Signature.
C10_SignatureNotSigned ==
    \A t \in Tasks :
        (tasks[t].api = "huobi" /\ tasks[t].pc \in {"accounts", "fetch"})
        => LET r == tasks[t].req
           IN  /\ ~HasKey(r.qparams[2], "Signature")
               /\ HasKey(r.params[2], "Signature")
               /\ DictPop(r.params[2], "Signature") = r.qparams[2]

---------------------------------------------------------------------------
(* Rendering of the signature *)

\* the signature a request in flight carries, "" when it carries none
C11_Carried(r) ==
    CASE r.venue = "binance" -> r.url
      [] r.venue = "huobi"   -> r.params[2].val["Signature"][2]
      [] r.venue = "okex"    ->
            IF r.headers = PyNone THEN "" ELSE r.headers[2].val["OK-ACCESS-SIGN"][2]

\* what a request that signed the text r.signed carries when the digest is
\* rendered as hexadecimal (hex) or as base64
C11_Expected(r, hex) ==
    LET d   == HmacSha256("SK", r.signed)
        sig == IF hex THEN HexDigest(d) ELSE B64Encode(d)
    IN  IF r.venue = "binance"
        THEN "https://api.binance.com" \o r.uri \o "?" \o r.signed \o "&signature=" \o sig
        ELSE sig

C11_Signs(t) ==
    /\ tasks[t].pc \in {"accounts", "fetch"}
    /\ tasks[t].req.signed # ""

\* C11 as stated: the signature is the hexadecimal rendering of the
\* HMAC-SHA256 digest of the signed text for Binance and for OKEx, and its
\* base64 rendering for Huobi.
C11_HexForBinanceAndOKEx ==
    \A t \in Tasks :
        C11_Signs(t)
        => C11_Carried(tasks[t].req)
              = C11_Expected(tasks[t].req, tasks[t].api \in {"binance", "okex"})

\* C11 as amended: the signature is the hexadecimal rendering of the digest
\* for Binance, and its base64 rendering for Huobi and for OKEx.
C11_HexForBinanceOnly ==
    \A t \in Tasks :
        C11_Signs(t)
        => C11_Carried(tasks[t].req)
              = C11_Expected(tasks[t].req, tasks[t].api = "binance")

\* an authenticated OKEx request is in flight, its signature in the header
C11_Witness ==
    \E t \in Tasks :
        /\ tasks[t].api = "okex" /\ tasks[t].pc = "fetch"
        /\ tasks[t].req.signed # ""
        /\ tasks[t].req.headers[2].val["OK-ACCESS-SIGN"]
              = PyStr(B64Encode(HmacSha256("SK", tasks[t].req.signed)))

---------------------------------------------------------------------------
(* Batch cancellation *)

\* the first n elements of a list, all of it when it has no more than n
C12_FirstN(ids, n) ==
    IF Len(ids) <= n THEN ids ELSE [i \in 1..n |-> ids[i]]

\* the order ids the request of a Huobi revoke_orders carries
C12_Sent(t) == tasks[t].req.body[2].val["order-ids"][2]

\* the order ids the caller passed
C12_Passed(t) ==
    IF tasks[t].api = "huobi" THEN tasks[t].arg[1][2] ELSE tasks[t].arg[2][2]

\* the JSON body of an OKEx batch cancellation of these ids
C12_OKExBody(symbol, ids) ==
    "[{\"instrument_id\": \"" \o symbol \o "\", \"order_ids\": ["
        \o Join([i \in DOMAIN ids |-> ToString(ids[i][2])], ", ") \o "]}]"

\* C12: the request of a revoke_orders carries the order ids passed when they
\* are no more than the cap (50 for Huobi, 10 for OKEx), and the first 50, or
\* 10, of them in their order when they are more; it never carries more than
\* the cap.
C12_BatchWithinCap ==
    \A t \in Tasks :
        (tasks[t].op = "revoke_orders" /\ tasks[t].pc = "fetch")
        => IF tasks[t].api = "huobi"
           THEN /\ Len(C12_Sent(t)) <= 50
                /\ C12_Sent(t) = C12_FirstN(C12_Passed(t), 50)
           ELSE tasks[t].req.body
                   = PyStr(C12_OKExBody(tasks[t].arg[1][2],
                                        C12_FirstN(C12_Passed(t), 10)))

---------------------------------------------------------------------------
(* The timestamp of OKExRestAPI.request *)

\* the decimal digit d as a string
C13_Digit(d) == ToString(d)

\* the strings that denote the instant of ms milliseconds as seconds with a
\* fraction of one to three digits
C13_Denotations(ms) ==
    LET secs == ToString(ms \div 1000)
        d1   == (ms % 1000) \div 100
        d2   == (ms % 100) \div 10
        d3   == ms % 10
    IN  {secs \o "." \o C13_Digit(d1) \o C13_Digit(d2) \o C13_Digit(d3)}
        \cup (IF d3 = 0 THEN {secs \o "." \o C13_Digit(d1) \o C13_Digit(d2)} ELSE {})
        \cup (IF d3 = 0 /\ d2 = 0 THEN {secs \o "." \o C13_Digit(d1)} ELSE {})

\* the header's timestamp is the one the signed message starts with
C13_SameString(r) ==
    r.signed = r.headers[2].val["OK-ACCESS-TIMESTAMP"][2]
                  \o Upper(r.method) \o r.uri \o r.body[2]

\* the header's timestamp denotes a millisecond between the two clock reads
C13_BetweenReads(r) ==
    \E ms \in (r.reads[1] \div 1000)..(r.reads[2] \div 1000) :
        r.headers[2].val["OK-ACCESS-TIMESTAMP"][2] \in C13_Denotations(ms)

\* C13: the timestamp of the OK-ACCESS-TIMESTAMP header of an authenticated
\* request is the string the signed message starts with, and it denotes an
\* instant, to the millisecond, between the first and the last clock read
\* made while the request was built.
C13_TimestampBetweenReads ==
    \A t \in Tasks :
        (tasks[t].api = "okex" /\ tasks[t].pc = "fetch" /\ tasks[t].req.signed # "")
        => /\ C13_SameString(tasks[t].req)
           /\ C13_BetweenReads(tasks[t].req)

====
